---- MODULE Spec2Model ----
(***************************************************************************)
(* The SRAM macro block of sram22test (src/src/lib.rs): the descriptor     *)
(* SramMacro, its derived address width, its Io bundle, and the schematic  *)
(* generator that loads the macro's subcircuit from a SPICE netlist,       *)
(* converts it to the Sky130Pdk schema and connects every bit of the Io    *)
(* bundle to the pin of that name.  One bind is modelled statement by      *)
(* statement; a caller runs binds one after the other and may export the   *)
(* bound cell back to the SPICE schema, as tests::export_sram_macro does.  *)
(***************************************************************************)
EXTENDS Integers, Sequences, FiniteSets, TLC

VARIABLES
    watched,   \* the descriptor the caller binds in this behaviour
    sram,      \* self: the descriptor of the running call
    pc,        \* the statement the call is at
    io,        \* the Io bundle built by io(): the length of each port array
    scir,      \* the local `scir` binding of schematic()
    i,         \* the loop variable of the for loop being run
    result,    \* how the call ended: "none" while running
    cell,      \* what the CellBuilder received through set_scir
    exported,  \* the caller's exported library: its schema and connections
    seen,      \* every outcome the caller has observed, per descriptor
    replay     \* how far the caller is in: watched, then OtherSram, then watched again

vars == <<watched, sram, pc, io, scir, i, result, cell, exported, seen, replay>>

----------------------------------------------------------------------------
(* Bounds of the model. *)
MaxWidth == 3
MaxDepth == 5
MaxMaskWidth == 3
MaxMuxRatio == 2

(* The descriptor of tests::sram_512x64m4w8_pex. *)
TestWidth == 64
TestDepth == 512
TestMaskWidth == 8
TestMuxRatio == 4
PexPath == "/tools/C/rahulkumar/personal/sram22_sky130_macros/sram22_512x64m4w8/pex/schematic.pex.spice"

(* Option::None of a record-valued slot. *)
None == [none |-> TRUE]

NetlistPaths == {PexPath, "unconvertible.spice", "malformed.spice", "missing.spice"}

(* SramMacro: five fields, usize and PathBuf, no validation at construction. *)
SramMacro(w, d, mw, mr, p) ==
    [width |-> w, depth |-> d, mask_width |-> mw, mux_ratio |-> mr, netlist_path |-> p]

sram_512x64m4w8_pex ==
    SramMacro(TestWidth, TestDepth, TestMaskWidth, TestMuxRatio, PexPath)

Descriptors ==
    { SramMacro(w, d, mw, mr, p) :
        w \in 1..MaxWidth, d \in 0..MaxDepth, mw \in 0..MaxMaskWidth,
        mr \in 1..MaxMuxRatio, p \in NetlistPaths }
    \cup {sram_512x64m4w8_pex}

(* The second descriptor of the caller's workload, bound between two binds *)
(* of the watched one.                                                     *)
OtherSram == SramMacro(2, 2, 1, 1, PexPath)

----------------------------------------------------------------------------
(* Arithmetic. *)
RECURSIVE Pow2(_)
Pow2(k) == IF k = 0 THEN 1 ELSE 2 * Pow2(k - 1)

(* The exponents of the powers of two up to 65536, past every depth here. *)
Exponents == 0..16

IsPowerOfTwo(n) == \E k \in Exponents : Pow2(k) = n

Divides(m, n) == m > 0 /\ n % m = 0

(* The rounded-up logarithm in the place of the rounded-down one. *)
RECURSIVE ilog2_ceil(_)
ilog2_ceil(n) == IF n < 2 THEN 0 ELSE 1 + ilog2_ceil((n + 1) \div 2)

(* usize::ilog2: the position of the highest set bit; panics on 0. *)
RECURSIVE ilog2(_)
ilog2(n) == IF n < 2 THEN 0 ELSE 1 + ilog2(n \div 2)

(* SramMacro::addr_width *)
addr_width(self) == ilog2(self.depth)

(* The descriptor invariant of the data model: what the code assumes. *)
ValidDescriptor(d) ==
    /\ d.width >= 1 /\ d.depth >= 1 /\ d.mux_ratio >= 1
    /\ IsPowerOfTwo(d.depth)
    /\ Divides(d.mask_width, d.width)

----------------------------------------------------------------------------
(* Block::io: the length of each Array of the bundle; the scalars are      *)
(* single signals.                                                         *)
SramIo(self) ==
    [addr  |-> addr_width(self),
     din   |-> self.width,
     wmask |-> self.mask_width,
     dout  |-> self.width]

ArrayPorts == {"addr", "din", "wmask", "dout"}
ScalarPorts == {"we", "clk", "vdd", "vss"}

(* One signal of the bundle: io.addr[k], io.we, ... *)
Bit(port, k) == <<port, k>>

(* Whether io.port[k] exists: indexing an Array out of range panics. *)
InBundle(bundle, bit) ==
    IF bit[1] \in ScalarPorts THEN bit[2] = 0
    ELSE bit[2] >= 0 /\ bit[2] < bundle[bit[1]]

(* The pin named as the SPICE file names it. *)
IndexedPinAsAuthored(port, k) ==
    (CASE port = "addr" -> "ADDR" [] port = "din" -> "DIN"
       [] port = "dout" -> "DOUT" [] OTHER -> "WMASK")
        \o "[" \o ToString(k) \o "]"

(* The pin names schematic() formats: format!("addr[{i}]"), "we", ... *)
IndexedPin(port, k) == port \o "[" \o ToString(k) \o "]"

(* The name with the depth and the width in each other's place. *)
SubcktNameWidthFirst(self) ==
    "sram22_" \o ToString(self.width) \o "x" \o ToString(self.depth)
        \o "m" \o ToString(self.mux_ratio)
        \o "w" \o ToString(self.width \div self.mask_width)

(* format!("sram22_{}x{}m{}w{}", depth, width, mux_ratio, width / mask_width) *)
SubcktName(self) ==
    "sram22_" \o ToString(self.depth) \o "x" \o ToString(self.width)
        \o "m" \o ToString(self.mux_ratio)
        \o "w" \o ToString(self.width \div self.mask_width)

----------------------------------------------------------------------------
(* The netlist files the caller's paths name.  Their contents never change. *)
AuthoredMuxRatios == {1, TestMuxRatio}

(* Integer bit count needed to address `depth` words: the authored macro's *)
(* address pins.                                                           *)
AddrPins(depth) ==
    CHOOSE k \in Exponents : Pow2(k) >= depth /\ \A j \in 0..(k - 1) : Pow2(j) < depth

AuthoredMacros ==
    { m \in [depth : 1..MaxDepth, width : 1..MaxWidth,
             mask_width : 1..MaxMaskWidth, mux_ratio : AuthoredMuxRatios] :
        Divides(m.mask_width, m.width) }
    \cup {[depth |-> TestDepth, width |-> TestWidth,
           mask_width |-> TestMaskWidth, mux_ratio |-> TestMuxRatio]}

AuthoredName(m) ==
    "sram22_" \o ToString(m.depth) \o "x" \o ToString(m.width)
        \o "m" \o ToString(m.mux_ratio)
        \o "w" \o ToString(m.width \div m.mask_width)

NetlistFile(path) ==
    CASE path = PexPath -> [kind |-> "netlist", convertible |-> TRUE]
      [] path = "unconvertible.spice" -> [kind |-> "netlist", convertible |-> FALSE]
      [] path = "malformed.spice" -> [kind |-> "malformed", convertible |-> FALSE]
      [] OTHER -> [kind |-> "missing", convertible |-> FALSE]

(* The two naming conventions of the pins of one macro. *)
UpperPort(port) ==
    CASE port = "addr" -> "ADDR" [] port = "din" -> "DIN" [] port = "dout" -> "DOUT"
      [] port = "wmask" -> "WMASK" [] port = "we" -> "WE" [] port = "clk" -> "CLK"
      [] port = "vdd" -> "VDD" [] port = "vss" -> "VSS"

RawPin(bit) ==
    IF bit[1] \in ScalarPorts THEN UpperPort(bit[1])
    ELSE UpperPort(bit[1]) \o "[" \o ToString(bit[2]) \o "]"

PdkPin(bit) ==
    IF bit[1] \in ScalarPorts THEN bit[1]
    ELSE bit[1] \o "[" \o ToString(bit[2]) \o "]"

(* The signals of a bundle with the given array lengths. *)
BundleBits(bundle) ==
    { Bit(port, 0) : port \in ScalarPorts }
    \cup UNION { { Bit(port, k) : k \in 0..(bundle[port] - 1) } : port \in ArrayPorts }

MacroBundle(m) ==
    [addr |-> AddrPins(m.depth), din |-> m.width, wmask |-> m.mask_width, dout |-> m.width]

(* The pins of the subcircuit as authored in the SPICE file. *)
AuthoredPins(m) == { RawPin(b) : b \in BundleBits(MacroBundle(m)) }

(* The casing table of the schema conversion, over every pin a macro of    *)
(* the netlist files can have.                                             *)
TableBits ==
    UNION { BundleBits(MacroBundle(m)) : m \in AuthoredMacros }

NamingTable == { <<RawPin(b), PdkPin(b)>> : b \in TableBits }

ToPdk(pin) ==
    IF \E e \in NamingTable : e[1] = pin
    THEN (CHOOSE e \in NamingTable : e[1] = pin)[2]
    ELSE pin

ToRaw(pin) ==
    IF \E e \in NamingTable : e[2] = pin
    THEN (CHOOSE e \in NamingTable : e[2] = pin)[1]
    ELSE pin

RenamePin(pin, schema) == IF schema = "Sky130Pdk" THEN ToPdk(pin) ELSE ToRaw(pin)

(* ScirBinding::convert_schema: the same cell in the target schema, every  *)
(* pin identifier remapped through the table, the connections kept.        *)
convert_schema(c, schema) ==
    [c EXCEPT !.schema = schema,
              !.pins = { RenamePin(pin, schema) : pin \in c.pins },
              !.conns = [k \in DOMAIN c.conns |->
                            <<RenamePin(c.conns[k][1], schema), c.conns[k][2]>>]]

(* A binding that starts with the connections of an earlier bind, as a     *)
(* cache of loaded cells shared between calls would give.                  *)
CachedBindingConns ==
    IF \E o \in seen : o.result = "Ok"
    THEN (CHOOSE o \in seen : o.result = "Ok").conns
    ELSE <<>>

(* ScirBinding::new: a binding starts with no connection. *)
NewBindingConns == <<>>

(* Spice::scir_cell_from_file: the call site takes a binding, not a        *)
(* Result, so a file that cannot be read or parsed, or that holds no       *)
(* subcircuit of that exact name, ends the call by a panic.                *)
scir_cell_from_file(path, name) ==
    LET f == NetlistFile(path)
        found == { m \in AuthoredMacros : AuthoredName(m) = name }
    IN  IF f.kind = "netlist" /\ found # {}
        THEN [ok |-> TRUE,
              cell |-> [name |-> name, schema |-> "Spice",
                        convertible |-> f.convertible,
                        pins |-> AuthoredPins(CHOOSE m \in found : TRUE),
                        conns |-> NewBindingConns]]
        ELSE [ok |-> FALSE, cell |-> None]

(* ScirBinding::connect, as schematic() issues it: one more connection     *)
(* from the pin of that name to the signal.                                *)
connect(c, pin, bit) == [c EXCEPT !.conns = Append(@, <<pin, bit>>)]

----------------------------------------------------------------------------
(* The state after construction: a caller with a descriptor, no call yet.  *)
Init ==
    /\ watched \in Descriptors
    /\ sram = None
    /\ pc = "idle"
    /\ io = None
    /\ scir = None
    /\ i = 0
    /\ result = "none"
    /\ cell = None
    /\ exported = None
    /\ seen = {}
    /\ replay = 0

(* What the caller observes of one finished call. *)
Outcome(self, res, c) ==
    [sram |-> self, result |-> res,
     conns |-> IF c = None THEN <<>> ELSE c.conns]

(* The caller's progress through binding the watched descriptor, another  *)
(* one, and the watched one again.                                         *)
Replayed(n, self) ==
    CASE n = 0 /\ self = watched -> 1
      [] n = 1 /\ self = OtherSram /\ self # watched -> 2
      [] n = 2 /\ self = watched -> 3
      [] OTHER -> n

(* The call ends: its locals are dropped, the caller holds the result and  *)
(* the CellBuilder whatever set_scir gave it.                              *)
Return(res, c) ==
    /\ result' = res
    /\ cell' = c
    /\ pc' = "returned"
    /\ scir' = None
    /\ i' = 0
    /\ seen' = seen \cup {Outcome(sram, res, c)}
    /\ replay' = Replayed(replay, sram)
    /\ UNCHANGED <<watched, sram, io, exported>>

(* The bounds of the three for loops of schematic(). *)
(* Loop bounds gone wrong: an inclusive range, and the write-mask loop run  *)
(* over the bits of one mask group instead of over the groups.             *)
AddrLoopBoundInclusive(self) == addr_width(self) + 1
WmaskLoopBoundGroupSize(self) == self.width \div self.mask_width
AddrLoopBound(self) == addr_width(self)
WmaskLoopBound(self) == self.mask_width
DataLoopBoundMaskWidth(self) == self.mask_width
DataLoopBound(self) == self.width

(* A caller asks for the schematic of a descriptor: a new CellBuilder, a   *)
(* new call.                                                               *)
Begin ==
    /\ pc \in {"idle", "returned", "exported"}
    /\ \E d \in {watched, OtherSram} : sram' = d
    /\ pc' = "io"
    /\ io' = None
    /\ scir' = None
    /\ i' = 0
    /\ result' = "none"
    /\ cell' = None
    /\ exported' = None
    /\ UNCHANGED <<watched, seen, replay>>

(* Block::io builds the bundle handed to schematic(); ilog2 panics on 0.   *)
Io ==
    /\ pc = "io"
    /\ IF sram.depth = 0
       THEN Return("PanicIlog2OfZero", None)
       ELSE /\ io' = SramIo(sram)
            /\ pc' = "load"
            /\ UNCHANGED <<watched, sram, scir, i, result, cell, exported, seen, replay>>

(* Line 70: the name is formatted (a division by zero panics), then the    *)
(* subcircuit of that name is loaded from netlist_path.                    *)
Load ==
    /\ pc = "load"
    /\ IF sram.mask_width = 0
       THEN Return("PanicDivideByZero", None)
       ELSE LET r == scir_cell_from_file(sram.netlist_path, SubcktName(sram))
            IN  IF r.ok
                THEN /\ scir' = r.cell
                     /\ pc' = "convert"
                     /\ UNCHANGED <<watched, sram, io, i, result, cell, exported, seen, replay>>
                ELSE Return("PanicLoad", None)

(* The conversion's Err swallowed: the binding is used as it was loaded.   *)
ConvertToPdkOrKeep(c) ==
    IF c.convertible
    THEN [ok |-> TRUE, cell |-> convert_schema(c, "Sky130Pdk")]
    ELSE [ok |-> TRUE, cell |-> c]

(* Line 71: convert_schema::<Sky130Pdk>() on the loaded binding: Ok of the *)
(* converted binding, or Err.                                              *)
ConvertToPdk(c) ==
    IF c.convertible
    THEN [ok |-> TRUE, cell |-> convert_schema(c, "Sky130Pdk")]
    ELSE [ok |-> FALSE, cell |-> None]

(* Line 71: the `?` returns an Err at once.                                *)
Convert ==
    /\ pc = "convert"
    /\ IF ConvertToPdk(scir).ok
       THEN /\ scir' = ConvertToPdk(scir).cell
            /\ pc' = "addr"
            /\ i' = 0
            /\ UNCHANGED <<watched, sram, io, result, cell, exported, seen, replay>>
       ELSE Return("Err", None)

(* One connect call of a loop body or of the straight-line code: indexing  *)
(* the bundle out of range panics.                                         *)
Connect(pin, bit, nextpc, nexti) ==
    IF InBundle(io, bit)
    THEN /\ scir' = connect(scir, pin, bit)
         /\ pc' = nextpc
         /\ i' = nexti
         /\ UNCHANGED <<watched, sram, io, result, cell, exported, seen, replay>>
    ELSE Return("PanicIndexOutOfBounds", None)

Goto(nextpc) ==
    /\ pc' = nextpc
    /\ i' = 0
    /\ UNCHANGED <<watched, sram, io, scir, result, cell, exported, seen, replay>>

(* The dout pin connected to the din signal of the same index. *)
DoutSignalFromDin(k) == Bit("din", k)

(* Line 82: the signal the dout pin of index k is connected to. *)
DoutSignal(k) == Bit("dout", k)

(* Lines 73-75 *)
ConnectAddr ==
    /\ pc = "addr"
    /\ i < AddrLoopBound(sram)
    /\ Connect(IndexedPin("addr", i), Bit("addr", i), "addr", i + 1)

AddrDone ==
    /\ pc = "addr"
    /\ ~(i < AddrLoopBound(sram))
    /\ Goto("we")

(* Line 76 *)
ConnectWe ==
    /\ pc = "we"
    /\ Connect("we", Bit("we", 0), "wmask", 0)

(* Lines 77-79 *)
ConnectWmask ==
    /\ pc = "wmask"
    /\ i < WmaskLoopBound(sram)
    /\ Connect(IndexedPin("wmask", i), Bit("wmask", i), "wmask", i + 1)

WmaskDone ==
    /\ pc = "wmask"
    /\ ~(i < WmaskLoopBound(sram))
    /\ Goto("din")

(* Lines 80-83 *)
ConnectDin ==
    /\ pc = "din"
    /\ i < DataLoopBound(sram)
    /\ Connect(IndexedPin("din", i), Bit("din", i), "dout", i)

ConnectDout ==
    /\ pc = "dout"
    /\ Connect(IndexedPin("dout", i), DoutSignal(i), "din", i + 1)

DataDone ==
    /\ pc = "din"
    /\ ~(i < DataLoopBound(sram))
    /\ Goto("vss")

(* Lines 84-86 *)
ConnectVss ==
    /\ pc = "vss"
    /\ Connect("vss", Bit("vss", 0), "vdd", 0)

ConnectVdd ==
    /\ pc = "vdd"
    /\ Connect("vdd", Bit("vdd", 0), "clk", 0)

ConnectClk ==
    /\ pc = "clk"
    /\ Connect("clk", Bit("clk", 0), "set_scir", 0)

(* Lines 88-89: cell.set_scir(scir); Ok(()) *)
SetScir ==
    /\ pc = "set_scir"
    /\ Return("Ok", scir)

(* tests::export_sram_macro: the library exported in the Sky130Pdk schema  *)
(* (line 135) is, for a SPICE netlist, converted to the Spice schema (line *)
(* 136).                                                                   *)
Export ==
    /\ pc = "returned"
    /\ result = "Ok"
    /\ \E target \in {"Spice", "Sky130Pdk"} :
         exported' = IF target = "Spice" THEN convert_schema(cell, "Spice") ELSE cell
    /\ pc' = "exported"
    /\ UNCHANGED <<watched, sram, io, scir, i, result, cell, seen, replay>>

Next ==
    \/ Begin
    \/ Io
    \/ Load
    \/ Convert
    \/ ConnectAddr
    \/ AddrDone
    \/ ConnectWe
    \/ ConnectWmask
    \/ WmaskDone
    \/ ConnectDin
    \/ ConnectDout
    \/ DataDone
    \/ ConnectVss
    \/ ConnectVdd
    \/ ConnectClk
    \/ SetScir
    \/ Export

Spec == Init /\ [][Next]_vars

----------------------------------------------------------------------------
(* Vocabulary of the properties. *)

(* The unique k with 2^k = depth, for a depth that is a power of two. *)
ExactLog2(depth) == CHOOSE k \in Exponents : Pow2(k) = depth

(* The fixed port set of a valid descriptor: the signals of              *)
(* addr[0..log2 depth), din[0..width), we, wmask[0..mask_width), clk,    *)
(* dout[0..width), vdd, vss.                                             *)
FixedPortSet(d) ==
    BundleBits([addr |-> ExactLog2(d.depth), din |-> d.width,
                wmask |-> d.mask_width, dout |-> d.width])

(* The pins a sequence of connections names, and its connection set. *)
PinsOf(conns) == { conns[k][1] : k \in DOMAIN conns }
ConnectionSet(conns) == { conns[k] : k \in DOMAIN conns }
PairwiseDistinctPins(conns) ==
    \A j, k \in DOMAIN conns : j # k => conns[j][1] # conns[k][1]

(* A call has ended and its CellBuilder holds a cell. *)
Bound == pc \in {"returned", "exported"} /\ result = "Ok" /\ cell # None

(* C1: for every valid descriptor (depth a power of two, mask_width       *)
(* dividing width) a successful bind has issued exactly                   *)
(* addr_width + width + 1 + mask_width + 1 + width + 1 + 1 connections,   *)
(* to pairwise distinct pins, and the pins connected are exactly those of *)
(* the fixed port set: each once, none left out (149 connections for the  *)
(* 512x64m4w8 descriptor).                                                *)
C1_EveryPinConnectedOnce ==
    (Bound /\ ValidDescriptor(sram)) =>
        /\ Len(cell.conns) =
              ExactLog2(sram.depth) + sram.width + 1 + sram.mask_width + 1
                + sram.width + 1 + 1
        /\ PairwiseDistinctPins(cell.conns)
        /\ PinsOf(cell.conns) = { PdkPin(b) : b \in FixedPortSet(sram) }
        /\ (sram = sram_512x64m4w8_pex => Len(cell.conns) = 149)

C1_Witness ==
    /\ Bound
    /\ sram = sram_512x64m4w8_pex
    /\ Len(cell.conns) = 149

----------------------------------------------------------------------------
(* The descriptor's counts are positive, as the data model requires. *)
PositiveFields(d) == d.width >= 1 /\ d.depth >= 1 /\ d.mask_width >= 1 /\ d.mux_ratio >= 1

(* The load step of a bind of d fails: the file is missing or malformed,   *)
(* or holds no subcircuit of the exact derived name.                       *)
LoadFails(d) ==
    \/ NetlistFile(d.netlist_path).kind # "netlist"
    \/ ~ \E m \in AuthoredMacros : AuthoredName(m) = SubcktName(d)

(* The load succeeds and the schema conversion of the loaded cell fails.   *)
ConversionFails(d) ==
    ~LoadFails(d) /\ ~NetlistFile(d.netlist_path).convertible

(* Every connection of the port set of the running descriptor, as io()     *)
(* declares it, has been issued on c.                                      *)
FullyConnected(c) ==
    /\ PinsOf(c.conns) = { PdkPin(b) : b \in BundleBits(SramIo(sram)) }
    /\ Len(c.conns) = Cardinality(BundleBits(SramIo(sram)))

Ended == pc \in {"returned", "exported"}

C3_NonDividingMaskRejected ==
    (sram # None /\ PositiveFields(sram) /\ ~Divides(sram.mask_width, sram.width))
        => (scir = None /\ cell = None /\ result # "Ok")

----------------------------------------------------------------------------
(* The binding the call is connecting, or the cell it handed over. *)
Issued == IF scir # None THEN scir.conns ELSE IF cell # None THEN cell.conns ELSE <<>>

LowerCaseNames(conns) == \A k \in DOMAIN conns : conns[k][1] = PdkPin(conns[k][2])
UpperCaseNames(conns) == \A k \in DOMAIN conns : conns[k][1] = RawPin(conns[k][2])

C5_AddrWidthFloorLog2 ==
    (sram # None /\ sram.depth >= 1 /\ pc # "io") =>
        /\ io # None
        /\ result # "PanicIlog2OfZero"
        /\ Pow2(io.addr) <= sram.depth
        /\ sram.depth < Pow2(io.addr + 1)
        /\ IsPowerOfTwo(sram.depth) =>
              /\ Pow2(io.addr) = sram.depth
              /\ \A k \in Exponents : Pow2(k) = sram.depth => k = io.addr
        /\ ~IsPowerOfTwo(sram.depth) => Pow2(io.addr) < sram.depth
        /\ (sram.depth = 512 => io.addr = 9)

C5_Witness ==
    /\ sram # None
    /\ io # None
    /\ sram.depth = 5
    /\ io.addr = 2
    /\ \E o \in seen : o.sram.depth = 2 /\ o.result = "Ok"

----------------------------------------------------------------------------
(* The exact quotient width / mask_width of a descriptor whose mask_width  *)
(* divides its width.                                                      *)
ExactQuotient(d) == CHOOSE q \in 1..d.width : q * d.mask_width = d.width

SameNumericFields(d, e) ==
    /\ d.width = e.width /\ d.depth = e.depth
    /\ d.mask_width = e.mask_width /\ d.mux_ratio = e.mux_ratio

(* C6: for a descriptor whose mask_width divides its width the subcircuit  *)
(* name is "sram22_{depth}x{width}m{mux_ratio}w{width/mask_width}", a      *)
(* function of the four numeric fields only: among the descriptors with a  *)
(* dividing mask_width, another one has the same name exactly when its     *)
(* four numeric fields are the same, whatever its netlist_path             *)
(* ("sram22_512x64m4w8" for the 512x64m4w8 descriptor).                    *)
C6_SubcktNameOfFields ==
    (pc = "convert" /\ Divides(sram.mask_width, sram.width)) =>
        /\ scir.name =
              "sram22_" \o ToString(sram.depth) \o "x" \o ToString(sram.width)
                \o "m" \o ToString(sram.mux_ratio) \o "w" \o ToString(ExactQuotient(sram))
        /\ \A d \in Descriptors :
              Divides(d.mask_width, d.width) =>
                  ((SubcktName(d) = scir.name) <=> SameNumericFields(d, sram))
        /\ (sram = sram_512x64m4w8_pex => scir.name = "sram22_512x64m4w8")

C6_Witness ==
    /\ pc = "convert"
    /\ SameNumericFields(sram, SramMacro(2, 4, 1, 1, PexPath))
    /\ scir.name = "sram22_4x2m1w2"
    /\ \E d \in Descriptors :
          /\ d.netlist_path # sram.netlist_path
          /\ Divides(d.mask_width, d.width)
          /\ SubcktName(d) = scir.name

C8_EqualInputsEqualResults ==
    \A a, b \in seen : a.sram = b.sram => a = b

C8_Witness ==
    /\ replay = 3
    /\ Ended
    /\ sram = watched
    /\ result = "Ok"
    /\ Outcome(sram, result, cell) \in seen
    /\ \E o \in seen : o.sram # watched /\ o.result = "Ok"

----------------------------------------------------------------------------
(* The connections in the order the contract lists them: addr[0..n), we,   *)
(* wmask[0..m), din[k] and dout[k] for each k in [0, w), vss, vdd, clk.    *)
DataOrder(w) ==
    [k \in 1..(2 * w) |->
        IF k % 2 = 1 THEN Bit("din", (k - 1) \div 2) ELSE Bit("dout", (k - 2) \div 2)]

ConnectionOrder(n, m, w) ==
    [k \in 1..n |-> Bit("addr", k - 1)]
        \o <<Bit("we", 0)>>
        \o [k \in 1..m |-> Bit("wmask", k - 1)]
        \o DataOrder(w)
        \o <<Bit("vss", 0), Bit("vdd", 0), Bit("clk", 0)>>

ExpectedOrder(d) ==
    LET order == ConnectionOrder(ilog2(d.depth), d.mask_width, d.width)
    IN  [k \in DOMAIN order |-> <<PdkPin(order[k]), order[k]>>]

IsPrefix(p, q) == Len(p) <= Len(q) /\ \A k \in DOMAIN p : p[k] = q[k]

ConnectingPcs == {"addr", "we", "wmask", "din", "dout", "vss", "vdd", "clk", "set_scir"}

(* The phase of the bind, read off the local binding. *)
Phase ==
    CASE pc \in {"idle", "io", "load"} -> "Unloaded"
      [] pc = "convert" -> "Loaded"
      [] pc \in ConnectingPcs -> "SchemaConverted"
      [] OTHER -> IF result = "Ok" THEN "Connected" ELSE "Failed"

PhaseOrder ==
    /\ Phase = "Unloaded" => (scir = None /\ cell = None)
    /\ Phase = "Loaded" =>
          (scir # None /\ scir.schema = "Spice" /\ scir.conns = <<>> /\ cell = None)
    /\ Phase = "SchemaConverted" =>
          /\ scir # None /\ scir.schema = "Sky130Pdk" /\ cell = None
          /\ IsPrefix(scir.conns, ExpectedOrder(sram))
          /\ (pc = "set_scir" => scir.conns = ExpectedOrder(sram))
    /\ Phase = "Connected" =>
          (scir = None /\ cell # None /\ cell.conns = ExpectedOrder(sram))
    /\ Phase = "Failed" => (scir = None /\ cell = None)

(* One step of a run: the binding is loaded once, converted once, only     *)
(* grows by one connection at a time after that, and once the cell is      *)
(* handed over nothing happens to it until another bind begins.            *)
PhaseStep ==
    /\ (scir # None /\ scir' # None /\ scir' # scir) =>
          \/ scir.schema = "Spice" /\ scir.conns = <<>> /\ scir'.schema = "Sky130Pdk"
                /\ scir'.conns = <<>>
          \/ scir.schema = "Sky130Pdk" /\ scir'.schema = "Sky130Pdk"
                /\ Len(scir'.conns) = Len(scir.conns) + 1 /\ IsPrefix(scir.conns, scir'.conns)
    /\ (cell # None) => (cell' = cell /\ scir' = None) \/ (pc' = "io" /\ cell' = None)

(* C9: every bind run goes Unloaded, Loaded, SchemaConverted, Connected:   *)
(* no connection is issued before the load and the conversion are done,    *)
(* the connections are issued in the order addr[0..addr_width), we,        *)
(* wmask[0..mask_width), din[k]/dout[k] for k in [0, width), vss, vdd,     *)
(* clk, a cell is exposed to the caller only in Connected, and Connected   *)
(* is terminal.                                                            *)
C9_PhaseOrder == [](PhaseOrder) /\ [][PhaseStep]_vars

C9_Witness ==
    /\ Phase = "Connected"
    /\ sram.width >= 2
    /\ sram.mask_width >= 2
    /\ sram.depth >= 4
    /\ cell.conns = ExpectedOrder(sram)
    /\ cell.conns[1] = <<"addr[0]", Bit("addr", 0)>>
    /\ cell.conns[3] = <<"we", Bit("we", 0)>>

(* The connections issued reference each pin and each signal once. *)
NoDuplicateReference(conns) ==
    \A j, k \in DOMAIN conns :
        j # k => (conns[j][1] # conns[k][1] /\ conns[j][2] # conns[k][2])

(* C10: for every descriptor with depth >= 1, power of two or not, every   *)
(* connection bind issues references a signal inside the width io()        *)
(* declares for its port: the addr loop bound is the length of io.addr,    *)
(* the wmask bound that of io.wmask, the din/dout bound that of io.din and *)
(* io.dout; no reference is out of range and none is repeated.             *)
C10_ReferencesInRange ==
    (sram # None /\ sram.depth >= 1) =>
        /\ result # "PanicIndexOutOfBounds"
        /\ (pc \in ConnectingPcs) =>
              /\ AddrLoopBound(sram) = io.addr
              /\ WmaskLoopBound(sram) = io.wmask
              /\ DataLoopBound(sram) = io.din
              /\ DataLoopBound(sram) = io.dout
              /\ (pc = "addr" => i <= io.addr)
              /\ (pc = "wmask" => i <= io.wmask)
              /\ (pc = "din" => i <= io.din)
              /\ (pc = "dout" => i < io.dout)
        /\ \A k \in DOMAIN Issued : InBundle(io, Issued[k][2])
        /\ NoDuplicateReference(Issued)

C10_Witness ==
    /\ Bound
    /\ sram.depth = 3
    /\ io.addr = 1
    /\ Len(cell.conns) >= 8
    /\ \A k \in DOMAIN cell.conns : InBundle(io, cell.conns[k][2])

====
